---------------------------- MODULE Spec2Model ----------------------------
(***************************************************************************)
(* A model of the StarCraft voice bot: the audio catalog (AudioManager),   *)
(* the file_id cache with its JSON file (load_file_id_cache /              *)
(* save_file_id_cache), the /upload pipeline (cmd_upload) stepped at its   *)
(* await points, the inline query handler, and process kill / restart.     *)
(*                                                                         *)
(* Strings are sequences of tokens: a path "protoss/zealot.ogg" is         *)
(* <<"protoss", "/", "zealot", ".", "ogg">>.  A Python dict is a sequence  *)
(* of [k, v] records in insertion order.                                   *)
(***************************************************************************)
EXTENDS Integers, Sequences, FiniteSets, TLC

(* ------------------------------ bounds -------------------------------- *)
\* number of audio files in the directory tree
NumFiles == 10
\* number of distinct file_id values the transport may hand out
NumHandles == 2
\* number of transport calls that fail (rate limit or error) in a behaviour;
\* they all happen before the first kill of the process
MaxFaults == 3
\* number of times the process is killed and started again
MaxKills == 1
\* number of audio files that may be in the tree of the scan and search models
NumScan == 3
\* polling sessions followed in main()
MaxPolls == 7
\* length of the mappings saved and loaded in the cache model
MaxCacheLen == 2
\* save / load round trips followed in the cache model
MaxRounds == 2
\* largest limit passed to search in the search model
MaxLimit == 3

(* ------------------------- program constants -------------------------- *)
ADMIN_USER_ID == 0
max_retries == 3
max_restarts == 5
CheckpointEvery == 10
SearchLimit == 20
MaxInlineResults == 50
ScoreFloor == 30

(* ----------------------------- dict helpers --------------------------- *)
\* keys of a dict, as a set
DictKeys(d) == {d[i].k : i \in 1..Len(d)}

\* position of key k in dict d (0 when absent)
DictPos(d, k) == IF \E i \in 1..Len(d) : d[i].k = k
                 THEN CHOOSE i \in 1..Len(d) : d[i].k = k
                 ELSE 0

\* d[k]
DictGet(d, k) == d[DictPos(d, k)].v

\* d[k] = v: an existing key keeps its position, a new key is appended
DictPut(d, k, v) ==
    IF DictPos(d, k) = 0
    THEN Append(d, [k |-> k, v |-> v])
    ELSE [d EXCEPT ![DictPos(d, k)] = [k |-> k, v |-> v]]

(* ------------------------------- paths -------------------------------- *)
\* path.replace('\\', '/')
NormalizePathKeep(p) == p
NormalizePath(p) == [i \in 1..Len(p) |-> IF p[i] = "\\" THEN "/" ELSE p[i]]

Stems == <<"zealot", "marine", "hydra", "theme", "probe", "scv", "drone", "ghost">>

\* names of files that are not audio files: they have the numbers -1, -2, ...
OtherNames == <<<<"readme", ".", "txt">>, <<"ogg">>, <<"zealot", ".", "ogg", ".", "bak">>>>

\* the files that may be under AUDIO_DIR: file i lives in directory DirOf(i)
\* and is named FileName(i); the files 1, 2, ... are audio files
DirOf(i) == IF i <= 2 THEN <<"protoss">>
            ELSE IF i % 2 = 1 THEN <<>> ELSE <<"terran">>
StemOf(i) == Stems[((((i + 1) \div 2) - 1) % Len(Stems)) + 1]
ExtOf(i) == IF i % 2 = 1 THEN "ogg" ELSE "wav"
FileName(i) == IF i < 0 THEN OtherNames[-i] ELSE <<StemOf(i), ".", ExtOf(i)>>

\* the order in which os.walk yields the files of a tree
RECURSIVE WalkOrder(_)
WalkOrder(files) ==
    IF files = {} THEN <<>>
    ELSE LET first == CHOOSE x \in files : \A y \in files : x <= y
         IN <<first>> \o WalkOrder(files \ {first})

\* os.path.relpath(os.path.join(root, file), audio_dir) on a host whose
\* separator is sep
RECURSIVE JoinSegs(_, _)
JoinSegs(segs, sep) ==
    IF segs = <<>> THEN <<>>
    ELSE <<Head(segs), sep>> \o JoinSegs(Tail(segs), sep)

RelPath(i, sep) == JoinSegs(DirOf(i), sep) \o FileName(i)

\* file.endswith(('.wav', '.ogg'))
IsAudio(name) ==
    /\ Len(name) >= 2
    /\ name[Len(name) - 1] = "."
    /\ name[Len(name)] \in {"wav", "ogg"}

\* s.split('/') : the list of the pieces between "/" tokens
RECURSIVE SplitSlash(_, _)
SplitSlash(s, cur) ==
    IF s = <<>> THEN <<cur>>
    ELSE IF Head(s) = "/" THEN <<cur>> \o SplitSlash(Tail(s), <<>>)
    ELSE SplitSlash(Tail(s), Append(cur, Head(s)))

\* s.rsplit('.', 1)[0]
RECURSIVE RStripExt(_)
RStripExt(s) ==
    IF \A i \in 1..Len(s) : s[i] # "." THEN s
    ELSE IF s[Len(s)] = "." THEN SubSeq(s, 1, Len(s) - 1)
    ELSE RStripExt(SubSeq(s, 1, Len(s) - 1))

\* str.title() of one token
TitleTok(t) == CASE t = "protoss" -> "Protoss"
                 [] t = "terran" -> "Terran"
                 [] t = "zealot" -> "Zealot"
                 [] t = "marine" -> "Marine"
                 [] t = "hydra" -> "Hydra"
                 [] t = "theme" -> "Theme"
                 [] t = "probe" -> "Probe"
                 [] t = "scv" -> "Scv"
                 [] t = "drone" -> "Drone"
                 [] t = "ghost" -> "Ghost"
                 [] OTHER -> t

\* '/'.join(parts).title()
RECURSIVE JoinTitle(_)
JoinTitle(parts) ==
    IF parts = <<>> THEN <<>>
    ELSE LET h == [i \in 1..Len(Head(parts)) |-> TitleTok(Head(parts)[i])]
         IN IF Len(parts) = 1 THEN h
            ELSE h \o <<"/">> \o JoinTitle(Tail(parts))

\* the display name of a relative path
DisplayName(relative_path, file) ==
    LET path_parts == SplitSlash(NormalizePath(relative_path), <<>>)
    IN IF Len(path_parts) > 1
       THEN <<"[">> \o JoinTitle(SubSeq(path_parts, 1, Len(path_parts) - 1))
            \o <<"]", " ">> \o RStripExt(path_parts[Len(path_parts)])
       ELSE RStripExt(file)

\* the loop of _load_audio_files over the walked files
RECURSIVE LoadFrom(_, _, _)
LoadFrom(af, walk, sep) ==
    IF walk = <<>> THEN af
    ELSE LET i == Head(walk)
         IN IF IsAudio(FileName(i))
            THEN LoadFrom(DictPut(af, RelPath(i, sep),
                                  DisplayName(RelPath(i, sep), FileName(i))),
                          Tail(walk), sep)
            ELSE LoadFrom(af, Tail(walk), sep)

\* AudioManager._load_audio_files: walk the tree and add every audio file
\* to the dict af (which is not cleared first)
LoadAudioFiles(af, files, sep) == LoadFrom(af, WalkOrder(files), sep)

\* the tree of the upload model: NumFiles audio files
AllFiles == 1..NumFiles

(* ------------------------------ the cache ----------------------------- *)
\* the normalisation loop shared by load_file_id_cache and
\* save_file_id_cache
RECURSIVE NormalizeCache(_, _)
NormalizeCache(cache, acc) ==
    IF cache = <<>> THEN acc
    ELSE NormalizeCache(Tail(cache),
                        DictPut(acc, NormalizePath(Head(cache).k), Head(cache).v))

\* the file_id values: opaque strings, written "1", "2", ... in the file
Handles == 1..NumHandles
HandleOf(text) == CHOOSE h \in Handles : ToString(h) = text

\* json.dump of a str: quotes and backslashes are escaped
RECURSIVE JsonEscape(_)
JsonEscape(p) ==
    IF p = <<>> THEN <<>>
    ELSE (IF Head(p) \in {"\\", "\""} THEN <<"\\", Head(p)>> ELSE <<Head(p)>>)
         \o JsonEscape(Tail(p))

JsonString(p) == <<"\"">> \o JsonEscape(p) \o <<"\"">>

RECURSIVE JsonItems(_)
JsonItems(d) ==
    IF d = <<>> THEN <<>>
    ELSE JsonString(Head(d).k) \o <<":">> \o JsonString(<<ToString(Head(d).v)>>)
         \o (IF Len(d) > 1 THEN <<",">> ELSE <<>>) \o JsonItems(Tail(d))

\* json.dump(d, f): the text of the file, as tokens (white space left out)
JsonDump(d) == <<"{">> \o JsonItems(d) \o <<"}">>

\* the string literal whose first character is text[i]: its value and the
\* position after its closing quote
RECURSIVE JsonReadString(_, _, _)
JsonReadString(text, i, acc) ==
    IF text[i] = "\"" THEN [val |-> acc, next |-> i + 1]
    ELSE IF text[i] = "\\" THEN JsonReadString(text, i + 2, Append(acc, text[i + 1]))
    ELSE JsonReadString(text, i + 1, Append(acc, text[i]))

RECURSIVE JsonReadItems(_, _, _)
JsonReadItems(text, i, acc) ==
    IF text[i] = "}" THEN acc
    ELSE IF text[i] = "," THEN JsonReadItems(text, i + 1, acc)
    ELSE LET key == JsonReadString(text, i + 1, <<>>)
             val == JsonReadString(text, key.next + 2, <<>>)
         IN JsonReadItems(text, val.next,
                          DictPut(acc, key.val, HandleOf(val.val[1])))

\* json.load(f) of an object of strings
JsonLoad(text) == JsonReadItems(text, 2, <<>>)

NoFile == [kind |-> "absent", data |-> <<>>]
TornFile == [kind |-> "torn", data |-> <<>>]

\* load_file_id_cache: {} when the file is absent
load_nothing(file) == <<>>
load_file_id_cache(file) ==
    IF file.kind = "json" THEN NormalizeCache(JsonLoad(file.data), <<>>) ELSE <<>>

\* save_file_id_cache: the file after a completed save
save_file_id_cache(cache) ==
    [kind |-> "json", data |-> JsonDump(NormalizeCache(cache, <<>>))]

\* the identifiers persisted in a file, in forward-slash form
FileKeys(file) ==
    IF file.kind = "json"
    THEN {NormalizePath(k) : k \in DictKeys(JsonLoad(file.data))}
    ELSE {}

\* is_admin
is_admin_anyone(user_id) == TRUE
is_admin(user_id) == user_id = ADMIN_USER_ID

(* ------------------------------- search ------------------------------- *)
\* length of the longest common subsequence of two strings
RECURSIVE LCS(_, _)
LCS(a, b) ==
    IF a = <<>> \/ b = <<>> THEN 0
    ELSE IF Head(a) = Head(b) THEN 1 + LCS(Tail(a), Tail(b))
    ELSE LET x == LCS(Tail(a), b)
             y == LCS(a, Tail(b))
         IN IF x >= y THEN x ELSE y

\* a score is the rational n / d, between 0 and 100
ScoreGT(x, y) == x.n * y.d > y.n * x.d
ScoreAny(x, floor) == TRUE
ScoreAbove(x, floor) == x.n > floor * x.d

\* fuzz.ratio: 100 * 2 * LCS / (len(a) + len(b))
Ratio(a, b) == [n |-> 200 * LCS(a, b), d |-> Len(a) + Len(b)]

\* fuzz.partial_ratio: the best ratio of the shorter string against the
\* windows of the longer one (of the shorter's length, or shorter at the ends)
PartialRatio(s1, s2) ==
    LET needle == IF Len(s1) <= Len(s2) THEN s1 ELSE s2
        hay == IF Len(s1) <= Len(s2) THEN s2 ELSE s1
        m == Len(needle)
        wins == {<<i, j>> \in (1..Len(hay)) \X (1..Len(hay)) :
                    /\ i <= j
                    /\ j - i + 1 <= m
                    /\ (j - i + 1 = m \/ i = 1 \/ j = Len(hay))}
        scores == {Ratio(needle, SubSeq(hay, w[1], w[2])) : w \in wins}
    IN IF m = 0 THEN [n |-> 0, d |-> 1]
       ELSE CHOOSE x \in scores :
                /\ \A y \in scores : ~ScoreGT(y, x)
                /\ \A y \in scores : (~ScoreGT(x, y)) => x.d <= y.d

\* insert r into a list sorted by descending score, after its equals
RECURSIVE InsertByScore(_, _)
InsertByScore(sorted, r) ==
    IF sorted = <<>> THEN <<r>>
    ELSE IF ScoreGT(r.score, Head(sorted).score) THEN <<r>> \o sorted
    ELSE <<Head(sorted)>> \o InsertByScore(Tail(sorted), r)

RECURSIVE ScoreAll(_, _, _, _)
ScoreAll(query, choices, i, acc) ==
    IF i > Len(choices) THEN acc
    ELSE ScoreAll(query, choices, i + 1,
                  InsertByScore(acc, [choice |-> choices[i],
                                      score |-> PartialRatio(query, choices[i]),
                                      index |-> i]))

\* process.extract(query, choices, scorer=fuzz.partial_ratio, limit=limit)
Extract(query, choices, limit) ==
    LET all == ScoreAll(query, choices, 1, <<>>)
    IN SubSeq(all, 1, IF Len(all) < limit THEN Len(all) ELSE limit)

\* the first relative path whose display name is the given one
FirstPathOf(af, display_name) ==
    af[CHOOSE i \in 1..Len(af) :
          /\ af[i].v = display_name
          /\ \A j \in 1..(i - 1) : af[j].v # display_name].k

\* the loop over the results of process.extract
RECURSIVE MatchBack(_, _, _)
MatchBack(af, results, acc) ==
    IF results = <<>> THEN acc
    ELSE LET r == Head(results)
         IN IF ScoreAbove(r.score, ScoreFloor)
            THEN MatchBack(af, Tail(results),
                           Append(acc, [path |-> FirstPathOf(af, r.choice),
                                        name |-> r.choice,
                                        score |-> r.score]))
            ELSE MatchBack(af, Tail(results), acc)

\* AudioManager.search
search(af, query, limit) ==
    IF query = <<>> THEN <<>>
    ELSE MatchBack(af, Extract(query, [i \in 1..Len(af) |-> af[i].v], limit), <<>>)

\* the values of search for the catalogs and queries of the model, computed
\* once: SearchOf(af, query) = search(af, query, SearchLimit)
Seps == {"/", "\\"}
CatalogOf == [sep \in Seps |-> LoadAudioFiles(LoadAudioFiles(<<>>, AllFiles, sep), AllFiles, sep)]

\* str.strip()
RECURSIVE LStrip(_)
LStrip(s) == IF s # <<>> /\ Head(s) = " " THEN LStrip(Tail(s)) ELSE s
RECURSIVE RStrip(_)
RStrip(s) == IF s # <<>> /\ s[Len(s)] = " " THEN RStrip(SubSeq(s, 1, Len(s) - 1)) ELSE s
Strip(s) == RStrip(LStrip(s))

QueryTexts == {<<>>, <<" ">>, <<" ", "zealot">>, <<"Terran", "marine", " ">>}
SearchMemo == [sep \in Seps, q \in {Strip(t) : t \in QueryTexts} |->
                  search(CatalogOf[sep], q, SearchLimit)]
SearchOf(af, query) ==
    IF \E sep \in Seps : af = CatalogOf[sep] /\ <<sep, query>> \in DOMAIN SearchMemo
    THEN SearchMemo[CHOOSE sep \in Seps : af = CatalogOf[sep], query]
    ELSE search(af, query, SearchLimit)

RECURSIVE InlineResultsStop(_, _, _, _)
InlineResultsStop(results, idx, cache, acc) ==
    IF idx > Len(results) THEN acc
    ELSE IF results[idx].path \notin DictKeys(cache)
         THEN acc
         ELSE InlineResultsStop(results, idx + 1, cache,
                                Append(acc, [id |-> idx - 1,
                                             voice_file_id |-> DictGet(cache, results[idx].path),
                                             title |-> results[idx].name]))

\* the loop of inline_query_handler over enumerate(results): entries not in
\* the cache are passed over
RECURSIVE InlineResults(_, _, _, _)
InlineResults(results, idx, cache, acc) ==
    IF idx > Len(results) THEN acc
    ELSE IF results[idx].path \notin DictKeys(cache)
         THEN InlineResults(results, idx + 1, cache, acc)
         ELSE InlineResults(results, idx + 1, cache,
                            Append(acc, [id |-> idx - 1,
                                         voice_file_id |-> DictGet(cache, results[idx].path),
                                         title |-> results[idx].name]))

\* inline_query_handler: what is passed to inline_query.answer
inline_query_handler(af, cache, raw_query) ==
    LET query == Strip(raw_query)
        results == SearchOf(af, query)
        inline_results == InlineResults(results, 1, cache, <<>>)
    IN IF results = <<>> \/ inline_results = <<>>
       THEN [sent |-> TRUE, query |-> raw_query, results |-> <<>>, cache_time |-> 1]
       ELSE [sent |-> TRUE, query |-> raw_query,
             results |-> SubSeq(inline_results, 1,
                                IF Len(inline_results) < MaxInlineResults
                                THEN Len(inline_results) ELSE MaxInlineResults),
             cache_time |-> 300]

(* ------------------------------- state -------------------------------- *)
VARIABLES
    host_sep,       \* os.sep of the host
    audio_files,    \* audio_manager.audio_files
    file_id_cache,  \* the in-memory Handle Cache
    cache_file,     \* file_id_cache.json
    pc,             \* position of the process / of cmd_upload
    all_files,      \* cmd_upload: the copy of the catalog it iterates
    it,             \* cmd_upload: index of the current entry in all_files
    retry_count, uploaded, skipped, errors,
    faults,         \* environment: failed transport calls so far
    kills,          \* environment: kills so far
    start_keys,     \* history: keys of file_id_cache when the run started
    calls,          \* history: answer_voice calls made for the current entry
    called,         \* history: keys for which answer_voice was called in this run
    status,         \* history: pipeline state per entry in this run
    del_failed,     \* history: a delete of the current entry has failed
    seen,           \* history: outcomes of the answer_voice calls of the current entry
    doomed,         \* history: keys whose answer_voice calls all ended in a generic error
    first_run,      \* history: no run has ended in this process yet
    persisted_at_start, \* history: the keys persisted in file_id_cache.json when the process started
    killed_success, \* history: keys that were SUCCESS when the process was killed
    reported,       \* the final summary sent by the last completed run
    slept,          \* history: the sleep made since the current entry's last answer_voice call
    answered,       \* the answer to the inline query handled in the last step
    command,        \* the /upload command handled in the last step
    tree,           \* the files under AUDIO_DIR
    restart_count,  \* main: restart_count
    mpc,            \* main: position in main()
    polls,          \* history: number of times main() has started polling
    fin,            \* the arguments of the function under study
    fout,           \* its result
    fstep           \* number of times it has been applied

progVars == <<host_sep, audio_files, file_id_cache, cache_file, pc, all_files, it,
              retry_count, uploaded, skipped, errors, faults, kills, start_keys,
              calls, called, status, del_failed, seen, doomed, first_run,
              persisted_at_start, killed_success, reported, slept>>
auxVars == <<tree, restart_count, mpc, polls, fin, fout, fstep>>
vars == <<progVars, answered, command, auxVars>>

Outcomes == {"ok", "retry_after", "error"}
Users == {ADMIN_USER_ID, ADMIN_USER_ID + 1}
NoAnswer == [sent |-> FALSE, query |-> <<>>, results |-> <<>>, cache_time |-> 0]
Queries == QueryTexts
NoCommand == [kind |-> "none", user |-> ADMIN_USER_ID, replied |-> FALSE]
NoReport == [sent |-> FALSE, total |-> 0, uploaded |-> 0, skipped |-> 0, errors |-> 0]

IdlePcs == {"idle", "done", "aborted"}
\* the await points of cmd_upload, where other handlers may run
AwaitPcs == {"answer_voice", "delete", "sleep_ok", "progress_msg", "pause_notify",
             "sleep_retry", "sleep_err", "final_msg", "final_sleep", "final_msg2"}

Entries == 1..Len(all_files)
CurKey == all_files[it].k

\* the transport's answer to a call: a failure uses up one of MaxFaults
Transport(o) ==
    /\ o # "ok" => faults < MaxFaults
    /\ faults' = IF o = "ok" THEN faults ELSE faults + 1

\* file_ids are opaque and the program never compares them, so the first
\* file_id issued for a file is taken to be 1; a later upload of the same
\* file may return any file_id
IssuedHandles(key) ==
    IF \E k \in DictKeys(file_id_cache) : NormalizePath(k) = NormalizePath(key)
    THEN Handles ELSE {1}

runVars == <<all_files, it, retry_count, uploaded, skipped, errors>>
ghostVars == <<seen, doomed, first_run, persisted_at_start>>
histVars == <<start_keys, calls, called, status, del_failed, ghostVars, killed_success,
              reported>>
procVars == <<host_sep, audio_files, kills>>

Init ==
    /\ host_sep \in Seps
    /\ cache_file = NoFile
    /\ file_id_cache = load_file_id_cache(cache_file)
    /\ tree = AllFiles
    /\ audio_files = LoadAudioFiles(LoadAudioFiles(<<>>, tree, host_sep), tree, host_sep)
    /\ pc = "idle"
    /\ all_files = <<>>
    /\ it = 1
    /\ retry_count = 0
    /\ uploaded = 0
    /\ skipped = 0
    /\ errors = 0
    /\ faults = 0
    /\ kills = 0
    /\ start_keys = {}
    /\ calls = 0
    /\ called = {}
    /\ status = <<>>
    /\ del_failed = FALSE
    /\ seen = {}
    /\ doomed = {}
    /\ first_run = TRUE
    /\ persisted_at_start = FileKeys(cache_file)
    /\ killed_success = {}
    /\ reported = NoReport
    /\ slept = "none"
    /\ answered = NoAnswer
    /\ command = NoCommand
    /\ restart_count = 0
    /\ mpc = "polling"
    /\ polls = 1
    /\ fin = <<>>
    /\ fout = <<>>
    /\ fstep = 0

(* ----------------------------- cmd_upload ----------------------------- *)
\* the handler up to the loop: admin gate, the "Starting" message, the
\* counters and the copy of the catalog
CmdUpload(user, o) ==
    /\ answered' = NoAnswer
    /\ command' = [kind |-> "upload", user |-> user, replied |-> is_admin(user)]
    /\ UNCHANGED auxVars
    /\ pc \in IdlePcs
    /\ IF is_admin(user) /\ o = "ok"
       THEN /\ pc' = "for"
            /\ all_files' = audio_files
            /\ it' = 1
            /\ retry_count' = 0
            /\ uploaded' = 0
            /\ skipped' = 0
            /\ errors' = 0
            /\ start_keys' = DictKeys(file_id_cache)
            /\ calls' = 0
            /\ called' = {}
            /\ status' = [e \in 1..Len(audio_files) |-> "PENDING"]
            /\ del_failed' = FALSE
            /\ seen' = {}
            /\ doomed' = {}
            /\ first_run' = (pc = "idle")
            /\ UNCHANGED persisted_at_start
            /\ killed_success' = IF pc = "idle" THEN killed_success ELSE {}
            /\ reported' = NoReport
            /\ slept' = "none"
            /\ UNCHANGED <<procVars, faults, file_id_cache, cache_file>>
       ELSE UNCHANGED progVars

\* if relative_path in file_id_cache
InCacheNever(key, cache) == FALSE
InCache(key, cache) == key \in DictKeys(cache)

\* for relative_path, display_name in all_files.items(): the cache test
For ==
    /\ answered' = NoAnswer
    /\ command' = NoCommand
    /\ UNCHANGED auxVars
    /\ slept' = IF it > Len(all_files) THEN slept ELSE "none"
    /\ pc = "for"
    /\ IF it > Len(all_files)
       THEN /\ pc' = "final_save"
            /\ UNCHANGED <<runVars, histVars>>
       ELSE IF InCache(CurKey, file_id_cache)
       THEN /\ skipped' = skipped + 1
            /\ it' = it + 1
            /\ status' = [status EXCEPT ![it] = "SKIPPED"]
            /\ UNCHANGED <<pc, all_files, retry_count, uploaded, errors,
                           start_keys, calls, called, del_failed, ghostVars,
                           killed_success, reported>>
       ELSE /\ retry_count' = 0
            /\ pc' = "while"
            /\ status' = [status EXCEPT ![it] = "ACQUIRING"]
            /\ del_failed' = FALSE
            /\ calls' = 0
            /\ seen' = {}
            /\ UNCHANGED <<all_files, it, uploaded, skipped, errors, start_keys,
                           called, doomed, first_run, persisted_at_start,
                           killed_success, reported>>
    /\ UNCHANGED <<procVars, faults, file_id_cache, cache_file>>

\* while retry_count < max_retries, and the test after the loop
RetryBudgetLeftInclusive(n) == n <= max_retries
RetryBudgetLeft(n) == n < max_retries

While ==
    /\ answered' = NoAnswer
    /\ command' = NoCommand
    /\ UNCHANGED <<slept, auxVars>>
    /\ pc = "while"
    /\ IF RetryBudgetLeft(retry_count)
       THEN /\ pc' = "answer_voice"
            /\ UNCHANGED <<it, status, doomed>>
       ELSE /\ pc' = "for"
            /\ it' = it + 1
            /\ status' = [status EXCEPT ![it] = "FAILED"]
            /\ doomed' = IF seen = {"error"} THEN doomed \cup {CurKey} ELSE doomed
    /\ UNCHANGED <<procVars, faults, file_id_cache, cache_file, all_files,
                   retry_count, uploaded, skipped, errors, start_keys, calls,
                   called, del_failed, seen, first_run, persisted_at_start,
                   killed_success, reported>>

\* the except Exception clause
OnErrorNoSleep ==
    /\ errors' = errors + 1
    /\ retry_count' = retry_count + 1
    /\ pc' = "while"
OnError ==
    /\ errors' = errors + 1
    /\ retry_count' = retry_count + 1
    /\ pc' = "sleep_err"

\* the first half of the except TelegramRetryAfter clause
OnRetryAfter ==
    /\ pc' = "pause_notify"
    /\ UNCHANGED <<errors, retry_count>>

\* sent_message = await message.answer_voice(voice), and the cache write
AnswerVoice(o, h) ==
    /\ answered' = NoAnswer
    /\ command' = NoCommand
    /\ UNCHANGED auxVars
    /\ slept' = "none"
    /\ pc = "answer_voice"
    /\ Transport(o)
    /\ h \in IssuedHandles(CurKey)
    /\ calls' = calls + 1
    /\ called' = called \cup {CurKey}
    /\ seen' = seen \cup {o}
    /\ CASE o = "ok" ->
              /\ file_id_cache' = DictPut(file_id_cache, CurKey, h)
              /\ uploaded' = uploaded + 1
              /\ status' = [status EXCEPT ![it] = "SUCCESS"]
              /\ pc' = "delete"
              /\ UNCHANGED <<errors, retry_count>>
         [] o = "retry_after" ->
              /\ h = 1
              /\ OnRetryAfter
              /\ UNCHANGED <<file_id_cache, uploaded, status>>
         [] o = "error" ->
              /\ h = 1
              /\ OnError
              /\ UNCHANGED <<file_id_cache, uploaded, status>>
    /\ UNCHANGED <<procVars, cache_file, all_files, it, skipped, start_keys,
                   del_failed, doomed, first_run, persisted_at_start, killed_success,
                   reported>>

\* await sent_message.delete()
Delete(o) ==
    /\ answered' = NoAnswer
    /\ command' = NoCommand
    /\ UNCHANGED <<slept, auxVars>>
    /\ pc = "delete"
    /\ Transport(o)
    /\ CASE o = "ok" ->
              /\ pc' = "sleep_ok"
              /\ UNCHANGED <<errors, retry_count, del_failed>>
         [] o = "retry_after" ->
              /\ OnRetryAfter
              /\ del_failed' = TRUE
         [] o = "error" ->
              /\ OnError
              /\ del_failed' = TRUE
    /\ UNCHANGED <<procVars, file_id_cache, cache_file, all_files, it, uploaded,
                   skipped, start_keys, calls, called, status, ghostVars,
                   killed_success, reported>>

\* if uploaded % 10 == 0
CheckpointDue(n) == n % CheckpointEvery = 0

\* await asyncio.sleep(1.0), then the checkpoint test; break when no
\* checkpoint is due
SleepOk ==
    /\ answered' = NoAnswer
    /\ command' = NoCommand
    /\ UNCHANGED auxVars
    /\ slept' = "item"
    /\ pc = "sleep_ok"
    /\ IF CheckpointDue(uploaded)
       THEN /\ pc' = "ckpt_save"
            /\ UNCHANGED it
       ELSE /\ pc' = "for"
            /\ it' = it + 1
    /\ UNCHANGED <<procVars, faults, file_id_cache, cache_file, all_files,
                   retry_count, uploaded, skipped, errors, histVars>>

\* save_file_id_cache(file_id_cache) of the checkpoint
CheckpointSave ==
    /\ answered' = NoAnswer
    /\ command' = NoCommand
    /\ UNCHANGED <<slept, auxVars>>
    /\ pc = "ckpt_save"
    /\ cache_file' = save_file_id_cache(file_id_cache)
    /\ pc' = "progress_msg"
    /\ UNCHANGED <<procVars, faults, file_id_cache, runVars, histVars>>

\* await message.answer(progress_msg), then break
ProgressMsg(o) ==
    /\ answered' = NoAnswer
    /\ command' = NoCommand
    /\ UNCHANGED <<slept, auxVars>>
    /\ pc = "progress_msg"
    /\ Transport(o)
    /\ IF o \in {"ok", "retry_after"}
       THEN /\ pc' = "for"
            /\ it' = it + 1
            /\ UNCHANGED <<errors, retry_count>>
       ELSE /\ OnError
            /\ UNCHANGED it
    /\ UNCHANGED <<procVars, file_id_cache, cache_file, all_files, uploaded,
                   skipped, histVars>>

\* the pause notification inside the except TelegramRetryAfter clause: only
\* TelegramRetryAfter is caught there, anything else leaves the handler
PauseNotify(o) ==
    /\ answered' = NoAnswer
    /\ command' = NoCommand
    /\ UNCHANGED <<slept, auxVars>>
    /\ pc = "pause_notify"
    /\ Transport(o)
    /\ pc' = IF o \in {"ok", "retry_after"} THEN "sleep_retry" ELSE "aborted"
    /\ UNCHANGED <<procVars, file_id_cache, cache_file, runVars, histVars>>

\* retry_count += 1 of the except TelegramRetryAfter clause
AfterRateLimitFree(n) == n
AfterRateLimit(n) == n + 1

\* await asyncio.sleep(retry_after + 2); retry_count += 1
SleepRetry ==
    /\ answered' = NoAnswer
    /\ command' = NoCommand
    /\ UNCHANGED auxVars
    /\ slept' = "cooldown"
    /\ pc = "sleep_retry"
    /\ retry_count' = AfterRateLimit(retry_count)
    /\ pc' = "while"
    /\ UNCHANGED <<procVars, faults, file_id_cache, cache_file, all_files, it,
                   uploaded, skipped, errors, histVars>>

\* await asyncio.sleep(1) of the except Exception clause
SleepErr ==
    /\ answered' = NoAnswer
    /\ command' = NoCommand
    /\ UNCHANGED auxVars
    /\ slept' = "backoff"
    /\ pc = "sleep_err"
    /\ pc' = "while"
    /\ UNCHANGED <<procVars, faults, file_id_cache, cache_file, runVars, histVars>>

\* save_file_id_cache(file_id_cache) after the loop
FinalSave ==
    /\ answered' = NoAnswer
    /\ command' = NoCommand
    /\ UNCHANGED <<slept, auxVars>>
    /\ pc = "final_save"
    /\ cache_file' = save_file_id_cache(file_id_cache)
    /\ pc' = "final_msg"
    /\ UNCHANGED <<procVars, faults, file_id_cache, runVars, histVars>>

Summary == [sent |-> TRUE, total |-> Len(all_files), uploaded |-> uploaded,
            skipped |-> skipped, errors |-> errors]

\* the final summary, first try
FinalMsg(o) ==
    /\ answered' = NoAnswer
    /\ command' = NoCommand
    /\ UNCHANGED <<slept, auxVars>>
    /\ pc = "final_msg"
    /\ Transport(o)
    /\ CASE o = "ok" -> pc' = "done" /\ reported' = Summary
         [] o = "retry_after" -> pc' = "final_sleep" /\ UNCHANGED reported
         [] o = "error" -> pc' = "aborted" /\ UNCHANGED reported
    /\ UNCHANGED <<procVars, file_id_cache, cache_file, runVars, start_keys,
                   calls, called, status, del_failed, ghostVars, killed_success>>

\* await asyncio.sleep(e.retry_after)
FinalSleep ==
    /\ answered' = NoAnswer
    /\ command' = NoCommand
    /\ UNCHANGED <<slept, auxVars>>
    /\ pc = "final_sleep"
    /\ pc' = "final_msg2"
    /\ UNCHANGED <<procVars, faults, file_id_cache, cache_file, runVars, histVars>>

\* the final summary, second try (unguarded)
FinalMsg2(o) ==
    /\ answered' = NoAnswer
    /\ command' = NoCommand
    /\ UNCHANGED <<slept, auxVars>>
    /\ pc = "final_msg2"
    /\ Transport(o)
    /\ IF o = "ok"
       THEN pc' = "done" /\ reported' = Summary
       ELSE pc' = "aborted" /\ UNCHANGED reported
    /\ UNCHANGED <<procVars, file_id_cache, cache_file, runVars, start_keys,
                   calls, called, status, del_failed, ghostVars, killed_success>>

(* -------------------------- kill and restart -------------------------- *)
\* the process is killed; a kill in the middle of a save leaves the file
\* opened with 'w' truncated or partly written
Kill(torn) ==
    /\ answered' = NoAnswer
    /\ command' = NoCommand
    /\ UNCHANGED auxVars
    /\ slept' = "none"
    /\ pc # "down"
    /\ kills < MaxKills
    /\ torn => pc \in {"ckpt_save", "final_save"}
    /\ pc' = "down"
    /\ kills' = kills + 1
    /\ faults' = MaxFaults
    /\ cache_file' = IF torn THEN TornFile ELSE cache_file
    /\ file_id_cache' = <<>>
    /\ audio_files' = <<>>
    /\ all_files' = <<>>
    /\ it' = 1
    /\ retry_count' = 0
    /\ uploaded' = 0
    /\ skipped' = 0
    /\ errors' = 0
    /\ killed_success' = {all_files[e].k : e \in {x \in Entries : status[x] = "SUCCESS"}}
    /\ start_keys' = {}
    /\ calls' = 0
    /\ called' = {}
    /\ status' = <<>>
    /\ del_failed' = FALSE
    /\ seen' = {}
    /\ doomed' = {}
    /\ first_run' = TRUE
    /\ persisted_at_start' = FileKeys(cache_file')
    /\ reported' = NoReport
    /\ UNCHANGED host_sep

\* the process starts: AudioManager(AUDIO_DIR), load_file_id_cache() and
\* main()'s _load_audio_files(); json.load of a torn file raises and the
\* process does not come up
Restart ==
    /\ answered' = NoAnswer
    /\ command' = NoCommand
    /\ UNCHANGED <<slept, auxVars>>
    /\ pc = "down"
    /\ cache_file.kind # "torn"
    /\ file_id_cache' = load_file_id_cache(cache_file)
    /\ audio_files' = LoadAudioFiles(LoadAudioFiles(<<>>, tree, host_sep), tree, host_sep)
    /\ pc' = "idle"
    /\ UNCHANGED <<host_sep, kills, faults, cache_file, runVars, histVars>>

(* ---------------------------- inline query ---------------------------- *)
\* inline_query_handler has no await before its answer, so it runs as one
\* step, at any await point of cmd_upload or while no run is in progress
InlineQuery(q) ==
    /\ pc \in IdlePcs \cup AwaitPcs
    /\ command' = NoCommand
    /\ UNCHANGED auxVars
    /\ answered' = inline_query_handler(audio_files, file_id_cache, q)
    /\ UNCHANGED progVars

Next ==
    \/ \E user \in Users, o \in Outcomes : CmdUpload(user, o)
    \/ For
    \/ While
    \/ \E o \in Outcomes, h \in Handles : AnswerVoice(o, h)
    \/ \E o \in Outcomes : Delete(o)
    \/ SleepOk
    \/ CheckpointSave
    \/ \E o \in Outcomes : ProgressMsg(o)
    \/ \E o \in Outcomes : PauseNotify(o)
    \/ SleepRetry
    \/ SleepErr
    \/ FinalSave
    \/ \E o \in Outcomes : FinalMsg(o)
    \/ FinalSleep
    \/ \E o \in Outcomes : FinalMsg2(o)
    \/ \E torn \in BOOLEAN : Kill(torn)
    \/ Restart

\* the bot with kills and restarts of the process
Spec == Init /\ [][Next]_vars

\* one process, with inline queries between the steps of cmd_upload
NextInline ==
    \/ \E user \in Users, o \in Outcomes : CmdUpload(user, o)
    \/ For
    \/ While
    \/ \E o \in Outcomes, h \in Handles : AnswerVoice(o, h)
    \/ \E o \in Outcomes : Delete(o)
    \/ SleepOk
    \/ CheckpointSave
    \/ \E o \in Outcomes : ProgressMsg(o)
    \/ \E o \in Outcomes : PauseNotify(o)
    \/ SleepRetry
    \/ SleepErr
    \/ FinalSave
    \/ \E o \in Outcomes : FinalMsg(o)
    \/ FinalSleep
    \/ \E o \in Outcomes : FinalMsg2(o)
    \/ \E q \in Queries : InlineQuery(q)

SpecInline == Init /\ [][NextInline]_vars

(* ------------------------ the cache, on its own ------------------------ *)
\* no /upload run: the variables of cmd_upload keep their initial values
uploadVars == <<all_files, it, retry_count, uploaded, skipped, errors, faults, kills,
                start_keys, calls, called, status, del_failed, seen, doomed,
                first_run, persisted_at_start, killed_success, reported, slept,
                answered, command>>

NoUpload ==
    /\ all_files = <<>>
    /\ it = 1
    /\ retry_count = 0
    /\ uploaded = 0
    /\ skipped = 0
    /\ errors = 0
    /\ faults = 0
    /\ kills = 0
    /\ start_keys = {}
    /\ calls = 0
    /\ called = {}
    /\ status = <<>>
    /\ del_failed = FALSE
    /\ seen = {}
    /\ doomed = {}
    /\ first_run = TRUE
    /\ persisted_at_start = {}
    /\ killed_success = {}
    /\ reported = NoReport
    /\ slept = "none"
    /\ answered = NoAnswer
    /\ command = NoCommand

\* identifiers a mapping may have as keys
CacheKeys == {<<"zealot", ".", "ogg">>,
              <<"protoss", "/", "zealot", ".", "ogg">>,
              <<"protoss", "\\", "zealot", ".", "ogg">>,
              <<"terran", "\\", "bio", "\\", "marine", ".", "wav">>,
              <<"say", " ", "\"", "hi", "\"", ".", "ogg">>}

\* the dicts with at most n entries
RECURSIVE CachesUpTo(_)
CachesUpTo(n) ==
    IF n = 0 THEN {<<>>}
    ELSE LET shorter == CachesUpTo(n - 1)
         IN shorter \cup
            {Append(d, [k |-> k, v |-> v]) :
                 <<d, k, v>> \in {x \in shorter \X CacheKeys \X Handles :
                                      /\ Len(x[1]) = n - 1
                                      /\ x[2] \notin DictKeys(x[1])}}

InitCache ==
    /\ host_sep = "/"
    /\ tree = {}
    /\ audio_files = <<>>
    /\ file_id_cache \in CachesUpTo(MaxCacheLen)
    /\ cache_file = NoFile
    /\ pc = "cache"
    /\ NoUpload
    /\ restart_count = 0
    /\ mpc = "polling"
    /\ polls = 1
    /\ fin = file_id_cache
    /\ fout = <<>>
    /\ fstep = 0

\* save_file_id_cache(M)
SaveCache ==
    /\ pc = "cache"
    /\ fstep < MaxRounds
    /\ cache_file' = save_file_id_cache(file_id_cache)
    /\ pc' = "cache_saved"
    /\ UNCHANGED <<host_sep, tree, audio_files, file_id_cache, uploadVars,
                   restart_count, mpc, polls, fin, fout, fstep>>

\* load_file_id_cache()
LoadCache ==
    /\ pc = "cache_saved"
    /\ file_id_cache' = load_file_id_cache(cache_file)
    /\ pc' = "cache"
    /\ fstep' = fstep + 1
    /\ UNCHANGED <<host_sep, tree, audio_files, cache_file, uploadVars,
                   restart_count, mpc, polls, fin, fout>>

NextCache ==
    \/ SaveCache
    \/ LoadCache

\* save_file_id_cache and load_file_id_cache applied to any mapping
SpecCache == InitCache /\ [][NextCache]_vars

(* -------------------------------- main -------------------------------- *)
\* the files that may be in the tree of the scan model
ScanFiles == (1..NumScan) \cup {-i : i \in 1..Len(OtherNames)}
AudioIn(files) == {i \in files : IsAudio(FileName(i))}

\* the module is imported (AudioManager(AUDIO_DIR) scans the tree) and main()
\* is entered
InitMain ==
    /\ host_sep \in Seps
    /\ tree \in SUBSET ScanFiles
    /\ audio_files = LoadAudioFiles(<<>>, tree, host_sep)
    /\ cache_file = NoFile
    /\ file_id_cache = load_file_id_cache(cache_file)
    /\ pc = "idle"
    /\ NoUpload
    /\ restart_count = 0
    /\ mpc = "loop"
    /\ polls = 0
    /\ fin = AudioIn(tree)
    /\ fout = <<>>
    /\ fstep = 0

mainFrame == <<host_sep, file_id_cache, cache_file, pc, uploadVars, fout>>

\* a file appears in the tree while the bot is running
AddFile(i) ==
    /\ mpc = "polling"
    /\ i \in ScanFiles \ tree
    /\ tree' = tree \cup {i}
    /\ UNCHANGED <<mainFrame, audio_files, restart_count, mpc, polls, fin, fstep>>

\* a file is removed from the tree while the bot is running
RemoveFile(i) ==
    /\ mpc = "polling"
    /\ i \in tree
    /\ tree' = tree \ {i}
    /\ UNCHANGED <<mainFrame, audio_files, restart_count, mpc, polls, fin, fstep>>

\* while restart_count < max_restarts
MainLoop ==
    /\ mpc = "loop"
    /\ mpc' = IF restart_count < max_restarts THEN "startup" ELSE "exited"
    /\ UNCHANGED <<mainFrame, tree, audio_files, restart_count, polls, fin, fstep>>

\* audio_manager._load_audio_files(), then the health-check server is set
\* up; an exception there is a startup failure.  fin is the set of audio
\* files of the tree as scanned, and fstep tells that the catalog has been
\* rescanned since construction.
Startup(ok) ==
    /\ mpc = "startup"
    /\ polls < MaxPolls
    /\ audio_files' = LoadAudioFiles(audio_files, tree, host_sep)
    /\ fin' = AudioIn(tree)
    /\ fstep' = 1
    /\ IF ok
       THEN /\ mpc' = "polling"
            /\ polls' = polls + 1
            /\ UNCHANGED restart_count
       ELSE /\ mpc' = "loop"
            /\ restart_count' = restart_count + 1
            /\ UNCHANGED polls
    /\ UNCHANGED <<mainFrame, tree>>

PollingEnds == {"error", "return", "signal"}

\* await dp.start_polling(bot) ends: by an exception, by returning, or by
\* KeyboardInterrupt / SystemExit
Polling(end) ==
    /\ mpc = "polling"
    /\ CASE end = "error" -> /\ restart_count' = restart_count + 1
                             /\ mpc' = "loop"
         [] end = "return" -> /\ UNCHANGED restart_count
                              /\ mpc' = "loop"
         [] end = "signal" -> /\ UNCHANGED restart_count
                              /\ mpc' = "exited"
    /\ UNCHANGED <<mainFrame, tree, audio_files, polls, fin, fstep>>

NextMain ==
    \/ \E i \in ScanFiles : AddFile(i)
    \/ \E i \in ScanFiles : RemoveFile(i)
    \/ MainLoop
    \/ \E ok \in BOOLEAN : Startup(ok)
    \/ \E end \in PollingEnds : Polling(end)

\* main() with its restart loop, over a tree that changes
SpecMain == InitMain /\ [][NextMain]_vars

(* ------------------------- search, on its own -------------------------- *)
SearchQueries == {<<>>, <<"zealot">>, <<"marine", "2">>, <<"Protoss", " ", "zealot">>,
                  <<"a", " ", "new", " ", "hydra", " ", "theme">>}

InitSearch ==
    /\ host_sep \in Seps
    /\ tree \in SUBSET ScanFiles
    /\ audio_files = LoadAudioFiles(<<>>, tree, host_sep)
    /\ cache_file = NoFile
    /\ file_id_cache = load_file_id_cache(cache_file)
    /\ pc = "idle"
    /\ NoUpload
    /\ restart_count = 0
    /\ mpc = "polling"
    /\ polls = 1
    /\ fin \in [query : SearchQueries, limit : 1..MaxLimit]
    /\ fout = <<>>
    /\ fstep = 0

\* audio_manager.search(query, limit)
Search ==
    /\ fstep = 0
    /\ fout' = search(audio_files, fin.query, fin.limit)
    /\ fstep' = 1
    /\ UNCHANGED <<host_sep, tree, audio_files, file_id_cache, cache_file, pc,
                   uploadVars, restart_count, mpc, polls, fin>>

NextSearch == Search

\* AudioManager.search applied to catalogs, queries and limits
SpecSearch == InitSearch /\ [][NextSearch]_vars

(* ------------------------------ properties ---------------------------- *)
RunPcs == {"for", "while", "ckpt_save", "final_save", "done", "aborted"} \cup AwaitPcs
KeyOf(e) == all_files[e].k
\* the entries the loop has finished with
Processed == {e \in Entries : e < it}

\* C1: an entry whose identifier is a key of the Handle Cache when the run
\* starts gets no answer_voice call in the run, ends SKIPPED, and skipped
\* counts exactly these entries.
C1_CachedNeverReacquired ==
    pc \in RunPcs =>
        /\ called \cap start_keys = {}
        /\ \A e \in Processed : KeyOf(e) \in start_keys => status[e] = "SKIPPED"
        /\ skipped = Cardinality({e \in Processed : KeyOf(e) \in start_keys})

C1_Witness ==
    /\ pc = "done"
    /\ skipped > 0
    /\ uploaded > 0
    /\ \E e \in Entries : KeyOf(e) \in start_keys /\ status[e] = "SKIPPED"

\* C2: the number of answer_voice calls made for one entry never exceeds 3,
\* and every failed attempt, rate-limited or not, uses up one of the 3: when
\* the loop is about to call again, the calls made equal retry_count.
C2_AtMostThreeCalls ==
    /\ calls <= max_retries
    /\ pc \in {"while", "answer_voice"} => calls = retry_count

C2_Witness ==
    /\ pc = "delete"
    /\ calls = max_retries
    /\ seen = {"ok", "retry_after", "error"}

\* C3: an entry not cached at the start whose answer_voice calls all fail with
\* a generic error is called exactly 3 times and no more, the handler is not
\* left while the entry is processed, the entry stays absent from the cache
\* for the rest of the run, the loop goes on to the next entry, and the final
\* summary counts its errors.
C3_AlwaysFailingEntry ==
    /\ (pc = "answer_voice" /\ seen = {"error"}) => calls < max_retries
    /\ (pc = "aborted" /\ it <= Len(all_files) /\ status[it] = "ACQUIRING")
           => seen # {"error"}
    /\ (pc = "for" /\ it > 1 /\ status[it - 1] = "FAILED" /\ seen = {"error"})
           => /\ calls = max_retries
              /\ KeyOf(it - 1) \in doomed
    /\ \A k \in doomed :
           /\ k \notin start_keys
           /\ k \notin DictKeys(file_id_cache)
           /\ errors >= max_retries
    /\ (pc = "done" /\ doomed # {}) =>
           /\ reported.sent
           /\ reported.errors >= max_retries * Cardinality(doomed)

C3_Witness ==
    /\ pc = "done"
    /\ doomed # {}
    /\ reported.errors = max_retries
    /\ reported.uploaded = Len(all_files) - 1
    /\ cache_file.kind = "json"

\* C4: a started run is never ended by a failure while it works on an entry:
\* the handler is not left before every catalog entry has been processed.
C4_RunNeverAborted == ~(pc = "aborted" /\ it <= Len(all_files))

\* C5 (as claimed): in the run after a kill and restart, every entry that had
\* reached SUCCESS in the killed run is skipped without an answer_voice call.
C5_EverySuccessSkipped ==
    (first_run /\ pc \in RunPcs) =>
        /\ killed_success \cap called = {}
        /\ \A e \in Processed : KeyOf(e) \in killed_success => status[e] = "SKIPPED"

\* C5 (amended): in the run after a kill and restart, the entries whose
\* identifier is a key of the persisted file as reloaded are skipped without
\* an answer_voice call, and every other entry is attempted again, also one
\* that was SUCCESS in the killed run but acquired after the last save.
C5_ResumeFromPersisted ==
    (kills > 0 /\ first_run /\ pc \in RunPcs) =>
        /\ start_keys = persisted_at_start
        /\ called \cap persisted_at_start = {}
        /\ \A e \in Processed :
               IF KeyOf(e) \in persisted_at_start
               THEN status[e] = "SKIPPED"
               ELSE KeyOf(e) \in called

C5_Witness ==
    /\ kills > 0
    /\ first_run
    /\ pc = "done"
    /\ \E k \in killed_success : k \in persisted_at_start /\ k \notin called
    /\ \E k \in killed_success : k \notin persisted_at_start /\ k \in called

\* C6: once the successful acquisitions of the run have reached 10, the
\* cache has been persisted before the loop turns to the next entry, and when
\* the count is a multiple of 10 the file holds the full in-memory cache.
C6_CheckpointEveryTen ==
    (pc = "for" /\ uploaded >= CheckpointEvery) =>
        /\ cache_file.kind = "json"
        /\ CheckpointDue(uploaded) => cache_file = save_file_id_cache(file_id_cache)

\* C7: in a run a key of the in-memory cache is never removed and its handle
\* is never overwritten.
C7_CacheAdditive ==
    [][pc' # "down" =>
          \A k \in DictKeys(file_id_cache) :
              /\ k \in DictKeys(file_id_cache')
              /\ DictGet(file_id_cache', k) = DictGet(file_id_cache, k)]_vars

\* C8: whatever the delete call answers, the pipeline goes on as after a
\* successful delete: to the inter-item sleep, with no error counted and no
\* attempt used, so that no further answer_voice call is made for the entry.
C8_DeleteFailureIgnored ==
    [][(pc = "delete" /\ pc' # "down") =>
          /\ pc' = "sleep_ok"
          /\ errors' = errors
          /\ retry_count' = retry_count]_vars

\* C9: an entry that ends FAILED is absent from the in-memory cache.
C9_FailedAbsent ==
    pc \in RunPcs =>
        \A e \in Entries : status[e] = "FAILED" => KeyOf(e) \notin DictKeys(file_id_cache)

\* C10: the answer to an inline query is the search result restricted to the
\* identifiers that are keys of the in-memory cache at that moment, in the
\* search's order, each with its cached handle, and at most 50 long.
ExpectedAnswer(af, cache, raw_query) ==
    LET found == SearchOf(af, Strip(raw_query))
        kept == SelectSeq(found, LAMBDA r : r.path \in DictKeys(cache))
    IN [i \in 1..Len(kept) |-> <<DictGet(cache, kept[i].path), kept[i].name>>]

C10_InlineAnswer ==
    answered.sent =>
        /\ [i \in 1..Len(answered.results) |->
               <<answered.results[i].voice_file_id, answered.results[i].title>>]
             = ExpectedAnswer(audio_files, file_id_cache, answered.query)
        /\ Len(answered.results) <= MaxInlineResults

C10_Witness ==
    /\ answered.sent
    /\ pc \in AwaitPcs
    /\ Len(answered.results) >= 2
    /\ Len(answered.results) < Len(SearchOf(audio_files, Strip(answered.query)))

HasBackslash(k) == \E i \in 1..Len(k) : k[i] = "\\"

\* C11: every key of the Handle Cache, in memory and in the persisted file,
\* is free of backslashes, whatever the path separator of the host.
C11_KeysNormalized ==
    /\ \A k \in DictKeys(file_id_cache) : ~HasBackslash(k)
    /\ cache_file.kind = "json" =>
           \A k \in DictKeys(JsonLoad(cache_file.data)) : ~HasBackslash(k)

\* C13: the persisted file is never left empty or partly written: it is absent
\* (nothing saved yet) or holds a complete mapping.
C13_FileAlwaysComplete == cache_file.kind # "torn"

\* C14 (as claimed): when the loop turns to the next entry, a sleep has been
\* made since the entry it leaves was started, whatever that entry's outcome
\* (stated for the behaviours in which no transport call has failed).
C14_DelayAfterEveryEntry ==
    (pc = "for" /\ it > 1 /\ faults = 0) => slept # "none"

\* C14 (amended): when the loop turns to the next entry, a sleep has been made
\* after the last answer_voice call of the entry it leaves if that entry ended
\* SUCCESS (the 1.0 s inter-item delay) or FAILED (the 1 s error delay or the
\* rate-limit cooldown); after a SKIPPED entry there is no delay.
C14_DelayAfterAttempt ==
    (pc = "for" /\ it > 1) =>
        CASE status[it - 1] = "SUCCESS" -> slept = "item"
          [] status[it - 1] = "FAILED" -> slept \in {"backoff", "cooldown"}
          [] status[it - 1] = "SKIPPED" -> slept = "none"
          [] OTHER -> FALSE

C14_Witness ==
    /\ pc = "for"
    /\ it > 2
    /\ status[it - 1] = "FAILED"
    /\ slept = "cooldown"
    /\ \E e \in Processed : status[e] = "SUCCESS"

\* C19: handling an /upload command of a user other than ADMIN_USER_ID changes
\* nothing (no run, no cache or file change, no transport call) and sends no
\* reply, and a run is started only by a command of ADMIN_USER_ID.
C19_AdminGated ==
    [][/\ (command'.kind = "upload" /\ command'.user # ADMIN_USER_ID) =>
              /\ UNCHANGED progVars
              /\ ~command'.replied
       /\ (pc \in IdlePcs /\ pc' = "for") =>
              /\ command'.kind = "upload"
              /\ command'.user = ADMIN_USER_ID]_vars

C19_Witness ==
    /\ command.kind = "upload"
    /\ command.user # ADMIN_USER_ID
    /\ pc = "done"
    /\ file_id_cache # <<>>
    /\ reported.sent

\* a key with every backslash replaced by a forward slash
Slashed(k) == [i \in 1..Len(k) |-> IF k[i] = "\\" THEN "/" ELSE k[i]]

\* normalize(M) as a set of <<key, handle>> pairs; of the keys of M that
\* differ only in their separators, the one inserted last gives the handle
NormalizedPairs(M) ==
    {<<Slashed(M[i].k), M[i].v>> :
        i \in {x \in 1..Len(M) :
                  \A y \in (x + 1)..Len(M) : Slashed(M[y].k) # Slashed(M[x].k)}}

DictPairs(d) == {<<d[i].k, d[i].v>> : i \in 1..Len(d)}

\* C12: after save_file_id_cache(M) and load_file_id_cache(), once or twice
\* over, the loaded mapping is normalize(M): the keys of M with backslashes
\* replaced by forward slashes, each once, with M's handles.
C12_RoundTrip ==
    (pc = "cache" /\ fstep >= 1) =>
        /\ DictPairs(file_id_cache) = NormalizedPairs(fin)
        /\ Len(file_id_cache) = Cardinality(DictKeys(file_id_cache))
        /\ Len(file_id_cache) = Cardinality(NormalizedPairs(fin))

C12_Witness ==
    /\ pc = "cache"
    /\ fstep = 2
    /\ Len(fin) = 2
    /\ \E i \in 1..Len(fin) : HasBackslash(fin[i].k)
    /\ \E i \in 1..Len(fin) : \E j \in 1..Len(fin[i].k) : fin[i].k[j] = "\""
    /\ file_id_cache # fin

\* C15: the catalog built at construction holds, for the tree it scanned,
\* exactly the files with extension .wav or .ogg, each once, keyed by its
\* relative path in forward-slash form.
C15_CatalogExact ==
    fstep = 0 =>
        /\ DictKeys(audio_files) = {RelPath(i, "/") : i \in fin}
        /\ Len(audio_files) = Cardinality(fin)

\* C16: after a scan made by main(), the keys of the catalog are the audio
\* files of the tree as scanned (by their relative paths on the host).
C16_CatalogRebuilt ==
    fstep = 1 =>
        DictKeys(audio_files) = {RelPath(i, host_sep) : i \in fin}

\* C17: every triple returned by search has a score above 30, at most limit
\* triples are returned, and the empty query returns the empty sequence.
C17_ScoreAboveFloor ==
    fstep = 1 =>
        /\ \A i \in 1..Len(fout) : fout[i].score.n > 30 * fout[i].score.d
        /\ Len(fout) <= fin.limit
        /\ fin.query = <<>> => fout = <<>>

C17_Witness ==
    /\ fstep = 1
    /\ fout # <<>>
    /\ Len(fout) < fin.limit
    /\ Len(fout) < Len(audio_files)

\* C18: main() starts polling at most max_restarts times.
C18_BoundedRestart == polls <= max_restarts

\* C20: search returns no identifier twice, and every returned identifier has
\* the label it is returned with.
C20_NoDuplicateIds ==
    fstep = 1 =>
        /\ \A i, j \in 1..Len(fout) : i # j => fout[i].path # fout[j].path
        /\ \A i \in 1..Len(fout) :
               /\ fout[i].path \in DictKeys(audio_files)
               /\ DictGet(audio_files, fout[i].path) = fout[i].name

\* C21: in the final summary of a run, uploaded is the number of entries that
\* ended SUCCESS, skipped the number of entries cached at the start, errors
\* the number of entries that ended FAILED, and the three add up to total.
C21_CountersPartition ==
    (pc = "done" /\ reported.sent) =>
        /\ reported.uploaded = Cardinality({e \in Entries : status[e] = "SUCCESS"})
        /\ reported.skipped = Cardinality({e \in Entries : KeyOf(e) \in start_keys})
        /\ reported.errors = Cardinality({e \in Entries : status[e] = "FAILED"})
        /\ reported.uploaded + reported.skipped + reported.errors = reported.total

=============================================================================
